---- MODULE Spec2Model ----
(***************************************************************************)
(* Model of the cache policies of mirror-cache (src/src/cache.rs): the     *)
(* LRU policy (LruRedisCache) and the TTL policy (TtlRedisCache), both     *)
(* keeping their metadata in one shared redis keyspace and their payloads  *)
(* in a filesystem blob store; and of the task manager (src/src/task.rs),  *)
(* which resolves a task from its cache or from upstream and refills the   *)
(* cache by a background worker.                                           *)
(*                                                                         *)
(* redis   : the shared metadata store, a function from redis key to      *)
(*           value.  Values are tagged records: a counter, a sorted set,   *)
(*           an entry hash, or a string key with an optional expiry.       *)
(* storage : the blob stores, one per root directory (one per instance).   *)
(* now     : util::now(), wall-clock epoch seconds.                        *)
(* ids     : the ids of the cache instances that were constructed; the     *)
(*           instance of id TtlId is a TTL cache, the others LRU caches.   *)
(* last    : the most recent call of put/get and what the caller saw.      *)
(* shadow  : what the callers know of each LRU key from the calls made:    *)
(*           the payload of its latest put and the time of its latest      *)
(*           access, or that it was evicted or never put.                  *)
(* pending_close : the shutdown flag of the TTL instance.                  *)
(* thread  : the expiration thread of the TTL instance: where it is in     *)
(*           its code (pc), whether its connection is subscribed (sub),    *)
(*           the keyspace messages delivered to it and not yet read        *)
(*           (inbox), and where it was when drop set the flag.             *)
(* notify  : notify-keyspace-events of the redis server.                   *)
(* task_set: the in-flight set of the task manager.                        *)
(* calls   : the calls of Task::resolve, one per caller.                   *)
(* workers : the background workers, each named by the call that spawned   *)
(*           it.                                                           *)
(* lru_calls : the calls of LRU put and get that concurrent callers have   *)
(*           in progress, each at the command it issues next.              *)
(***************************************************************************)
EXTENDS Integers, Sequences, FiniteSets, TLC

VARIABLES redis, storage, now, ids, last, shadow,
          pending_close, thread, notify,
          task_set, calls, workers, lru_calls

\* the state of the TTL instance's expiration thread and of its server
ttlVars == <<pending_close, thread, notify>>

\* the state of the task manager
tmVars == <<task_set, calls, workers>>

vars == <<redis, storage, now, ids, last, shadow, pending_close, thread, notify,
          task_set, calls, workers, lru_calls>>

----------------------------------------------------------------------------
(* Bounds of the model *)

\* size_limit of every LRU instance, in bytes
SizeLimit == 3
\* the clock runs from 0 to MaxTime
MaxTime == 2
\* ttl of the TTL instance, in seconds
Ttl == 1
\* total_size is followed up to MaxTotal (failing steps can make it drift
\* upwards without end)
MaxTotal == 6
\* the expiration thread holds at most MaxInbox unread keyspace messages
MaxInbox == 2
\* the number of callers of Task::resolve, each making one call
NCallers == 3

\* cache keys the callers use
CacheKeys == {"x", "y", "b_x"}
\* payloads: n equal bytes (vec![1; n]), up to one byte more than the limit,
\* and a second payload of one byte (vec![2])
Payloads == { [i \in 1..n |-> 1] : n \in 1..(SizeLimit + 1) } \cup {<<2>>}

\* the id of the TTL instance
TtlId == "t"

\* steps of a call that can fail (a redis connection or command, a blob
\* operation); "none" is a call in which nothing fails
LruPutFaults == {"connect", "get_total", "zpopmin", "blob_rm", "hget", "del",
                 "decr", "set_entry"}
LruGetFaults == {"connect", "get_entry", "atime", "blob_read"}
TtlPutFaults == {"connect", "set", "expire"}
TtlGetFaults == {"connect", "get", "blob_read"}

----------------------------------------------------------------------------
(* Values *)

None == [some |-> FALSE, data |-> <<>>]
Some(d) == [some |-> TRUE, data |-> d]

\* CacheData: only BytesData and TextData carry their bytes; len is the
\* number of bytes
BytesData(b) == [kind |-> "BytesData", bytes |-> b, size |-> Some(Len(b))]

TextData(b) == [kind |-> "TextData", bytes |-> b, size |-> Some(Len(b))]

\* ByteStream(stream, size): the bytes the stream yields and the declared
\* size, an Option
ByteStream(b, size) == [kind |-> "ByteStream", bytes |-> b, size |-> size]

\* CacheData::len of a ByteStream is size.unwrap(), which panics on None
len_panics(entry) == entry.kind = "ByteStream" /\ ~ entry.size.some

len(entry) == IF entry.kind = "ByteStream" THEN entry.size.data ELSE Len(entry.bytes)

IntV(n) == [t |-> "int", n |-> n]
ZsetV(m) == [t |-> "zset", m |-> m]
HashV(path, size, atime) == [t |-> "hash", path |-> path, size |-> size, atime |-> atime]
StrV(exp) == [t |-> "string", exp |-> exp]

Upd(f, k, v) == [x \in (DOMAIN f) \cup {k} |-> IF x = k THEN v ELSE f[x]]
Del(f, k) == [x \in (DOMAIN f) \ {k} |-> f[x]]

----------------------------------------------------------------------------
(* Key derivation *)

to_prefixed_key(id, cache_key) == id \o "_" \o cache_key

from_prefixed_key(id, cache_key) == SubSeq(cache_key, Len(id) + 2, Len(cache_key))

total_size_key(id) == to_prefixed_key(id, "total_size")

entries_zlist_key(id) == to_prefixed_key(id, "cache_keys")

to_redis_key(id, cache_key) == id \o "/" \o cache_key

----------------------------------------------------------------------------
(* Redis commands, as the code uses them *)

\* GET key as Option<u64>, unwrap_or(0)
GetInt(rd, k) == IF k \in DOMAIN rd THEN rd[k].n ELSE 0

\* members of a sorted set, with their scores
ZMembers(rd, zk) == IF zk \in DOMAIN rd THEN DOMAIN rd[zk].m ELSE {}

ZScore(rd, zk, m) == rd[zk].m[m]

\* ZADD key score member
ZAdd(rd, zk, m, score) ==
    Upd(rd, zk, ZsetV(Upd(IF zk \in DOMAIN rd THEN rd[zk].m ELSE <<>>, m, score)))

\* removing the last member of a sorted set removes the key
ZRem(rd, zk, m) ==
    IF ZMembers(rd, zk) \ {m} = {} THEN Del(rd, zk)
    ELSE Upd(rd, zk, ZsetV(Del(rd[zk].m, m)))

\* ZPOPMAX in the place of ZPOPMIN
zpopmax(rd, zk) ==
    { m \in ZMembers(rd, zk) :
        \A o \in ZMembers(rd, zk) : ZScore(rd, zk, o) <= ZScore(rd, zk, m) }

\* ZPOPMIN key 1: the members that can be popped, those of the smallest
\* score (members of equal score: any of them)
zpopmin(rd, zk) ==
    { m \in ZMembers(rd, zk) :
        \A o \in ZMembers(rd, zk) : ZScore(rd, zk, m) <= ZScore(rd, zk, o) }

\* HGET key size as Option<u64>
HExists(rd, k) == k \in DOMAIN rd /\ rd[k].t = "hash"

hget_size(rd, k) ==
    IF HExists(rd, k) /\ "size" \in DOMAIN rd[k] THEN Some(rd[k].size) ELSE None

unwrap_or(opt, d) == IF opt.some THEN opt.data ELSE d

\* the sum of the size fields of the entry hashes of the keys S
RECURSIVE SumSizes(_, _)
SumSizes(rd, S) ==
    IF S = {} THEN 0
    ELSE LET m == CHOOSE x \in S : TRUE
         IN  unwrap_or(hget_size(rd, m), 0) + SumSizes(rd, S \ {m})

----------------------------------------------------------------------------
(* Blob store (Storage::FileSystem), one root directory per instance *)

Files(st, root) == DOMAIN st[root]

persist(st, root, name, bytes) == [st EXCEPT ![root] = Upd(st[root], name, bytes)]

remove(st, root, name) == [st EXCEPT ![root] = Del(st[root], name)]

read(st, root, name) == IF name \in Files(st, root) THEN Some(st[root][name]) ELSE None

----------------------------------------------------------------------------
(* models::* helpers of the LRU policy *)

\* models::get_cache_entry: the entry hash of redis_key, if there is one
get_cache_entry(rd, redis_key) ==
    IF HExists(rd, redis_key) THEN Some(rd[redis_key]) ELSE None

\* models::update_cache_entry_atime: set the atime field of the entry hash
\* (HSET, which creates a hash that is not there, with this field alone) and
\* the score of the key in the entries index (ZADD, which adds a member
\* that is not there)
update_cache_entry_atime(rd, redis_key, new_atime, zlist_key) ==
    ZAdd(Upd(rd, redis_key,
             IF HExists(rd, redis_key)
             THEN [rd[redis_key] EXCEPT !.atime = new_atime]
             ELSE [t |-> "hash", atime |-> new_atime]),
         zlist_key, redis_key, new_atime)

\* CacheEntry::new that stores the length of the key instead of the size
CacheEntryNew_keylen(path, size, t) == HashV(path, Len(path), t)

\* CacheEntry::new(path, size): the metadata of a new entry, atime = now
CacheEntryNew(path, size, t) == HashV(path, size, t)

\* models::set_lru_cache_entry: the size of an existing entry of the key is
\* subtracted from total_size and the new size added, the hash fields are
\* set and the key is added to the entries index with score = atime
set_lru_cache_entry(rd, redis_key, entry, total_key, zlist_key) ==
    LET old  == unwrap_or(hget_size(rd, redis_key), 0)
        rd1  == Upd(rd, total_key, IntV(GetInt(rd, total_key) - old + entry.size))
        rd2  == Upd(rd1, redis_key, entry)
    IN  ZAdd(rd2, zlist_key, redis_key, entry.atime)

----------------------------------------------------------------------------
(* LruRedisCache::put *)

\* The state of one run of the eviction transaction: the stores, the local
\* cur_cache_size, the members popped so far, and how the closure ended
\* ("run": still running, "ok", "inconsistent": Err returned, "panic").
TxState(rd, st) ==
    [redis |-> rd, storage |-> st, cur |-> 0, evicted |-> <<>>, res |-> "run",
     tx |-> "none"]

\* get_total_size: GET total_size on a connection of its own; a value that
\* is no u64 makes the unwrap panic
get_total_size(id, f, s) ==
    IF f = "get_total" \/ GetInt(s.redis, total_size_key(id)) < 0
    THEN [s EXCEPT !.res = "panic"]
    ELSE [s EXCEPT !.cur = GetInt(s.redis, total_size_key(id))]

\* evict_one with the entry hash deleted before its size is read
evict_one_del_first(id, f, s, m) ==
    LET zk   == entries_zlist_key(id)
        tk   == total_size_key(id)
        rd1  == ZRem(s.redis, zk, m)
        file == from_prefixed_key(id, m)
        st1  == IF f = "blob_rm" THEN s.storage ELSE remove(s.storage, id, file)
        rd2  == IF f = "del" THEN rd1 ELSE Del(rd1, m)
        pkg_size == hget_size(rd2, m)
        new  == GetInt(rd2, tk) - unwrap_or(pkg_size, 0)
        rd3  == Upd(rd2, tk, IntV(new))
        ev   == Append(s.evicted, m)
    IN  IF f \in {"hget", "decr"}
        THEN [s EXCEPT !.redis = rd2, !.storage = st1, !.evicted = ev, !.res = "panic"]
        ELSE [s EXCEPT !.redis = rd3, !.storage = st1, !.evicted = ev, !.cur = new]

\* evict_one that returns the error of a failed storage.remove from the closure
evict_one_rm_aborts(id, f, s, m) ==
    LET zk   == entries_zlist_key(id)
        tk   == total_size_key(id)
        rd1  == ZRem(s.redis, zk, m)
        file == from_prefixed_key(id, m)
        pkg_size == hget_size(rd1, m)
        rd2  == Del(rd1, m)
        new  == GetInt(rd2, tk) - unwrap_or(pkg_size, 0)
        rd3  == Upd(rd2, tk, IntV(new))
        ev   == Append(s.evicted, m)
    IN  IF f = "blob_rm"
        THEN [s EXCEPT !.redis = rd1, !.evicted = ev, !.res = "inconsistent"]
        ELSE [s EXCEPT !.redis = rd3, !.storage = remove(s.storage, id, file),
                       !.evicted = ev, !.cur = new]

\* the body of the loop for one popped member m (for (f, _) in pkg_to_remove)
evict_one(id, f, s, m) ==
    LET zk   == entries_zlist_key(id)
        tk   == total_size_key(id)
        rd1  == ZRem(s.redis, zk, m)
        file == from_prefixed_key(id, m)
        st1  == IF f = "blob_rm" THEN s.storage ELSE remove(s.storage, id, file)
        pkg_size == hget_size(rd1, m)
        rd2  == IF f = "del" THEN rd1 ELSE Del(rd1, m)
        new  == GetInt(rd2, tk) - unwrap_or(pkg_size, 0)
        rd3  == Upd(rd2, tk, IntV(new))
        ev   == Append(s.evicted, m)
    IN  IF f = "hget"
        THEN [s EXCEPT !.redis = rd1, !.storage = st1, !.evicted = ev, !.res = "panic"]
        ELSE IF f = "decr"
        THEN [s EXCEPT !.redis = rd2, !.storage = st1, !.evicted = ev, !.res = "panic"]
        ELSE IF new < 0
        THEN [s EXCEPT !.redis = rd3, !.storage = st1, !.evicted = ev, !.res = "panic"]
        ELSE [s EXCEPT !.redis = rd3, !.storage = st1, !.evicted = ev, !.cur = new]

\* the loop with >= in the place of > in its condition
RECURSIVE evict_loop_ge(_, _, _, _)
evict_loop_ge(id, file_size, f, s) ==
    IF s.res # "run" THEN {s}
    ELSE IF s.cur + file_size < SizeLimit THEN {[s EXCEPT !.res = "ok"]}
    ELSE IF f = "zpopmin" THEN {[s EXCEPT !.res = "panic"]}
    ELSE IF zpopmin(s.redis, entries_zlist_key(id)) = {}
    THEN {[s EXCEPT !.res = "inconsistent"]}
    ELSE UNION { evict_loop_ge(id, file_size, f, evict_one(id, f, s, m)) :
                 m \in zpopmin(s.redis, entries_zlist_key(id)) }

\* while cur_cache_size + file_size > self.size_limit { ... }
RECURSIVE evict_loop(_, _, _, _)
evict_loop(id, file_size, f, s) ==
    IF s.res # "run" THEN {s}
    ELSE IF s.cur + file_size <= SizeLimit THEN {[s EXCEPT !.res = "ok"]}
    ELSE IF f = "zpopmin" THEN {[s EXCEPT !.res = "panic"]}
    ELSE IF zpopmin(s.redis, entries_zlist_key(id)) = {}
    THEN {[s EXCEPT !.res = "inconsistent"]}
    ELSE UNION { evict_loop(id, file_size, f, evict_one(id, f, s, m)) :
                 m \in zpopmin(s.redis, entries_zlist_key(id)) }

\* redis::transaction(..., |con, _pipe| { ... }): the commands of the
\* closure run on the connection as they are issued
transaction(id, file_size, f, s) ==
    evict_loop(id, file_size, f, get_total_size(id, f, s))

\* after the transaction, whose result is dropped (_tx_result): persist the
\* blob, then set the metadata
admit(id, key, entry, f, t) ==
    LET redis_key == to_prefixed_key(id, key)
        st1 == persist(t.storage, id, key, entry.bytes)
        e   == CacheEntryNew(redis_key, len(entry), now)
        rd1 == IF f = "set_entry" THEN t.redis
               ELSE set_lru_cache_entry(t.redis, redis_key, e,
                                        total_size_key(id), entries_zlist_key(id))
    IN  IF t.res = "panic" THEN [t EXCEPT !.tx = "panic"]
        ELSE [t EXCEPT !.redis = rd1, !.storage = st1, !.res = "ok", !.tx = t.res]

\* the outcomes of put(key, entry) in which step f fails: the stores it
\* leaves, what it evicted, and whether it returned ("ok") or panicked
\* (entry.len() panics for a stream of unknown size, and
\* get_sync_con(..).unwrap() panics when the connection fails).  The test
\* file_size > self.size_limit only logs "skip cache": it does not return,
\* so a payload above the limit takes the same path as any other.
put(id, key, entry, f) ==
    IF len_panics(entry) \/ f = "connect" THEN {[TxState(redis, storage) EXCEPT !.res = "panic"]}
    ELSE { admit(id, key, entry, f, t) :
           t \in transaction(id, len(entry), f, TxState(redis, storage)) }

----------------------------------------------------------------------------
(* LruRedisCache::get *)

\* get that leaves the atime of the entry as it is
get_no_atime_update(id, key, f) ==
    LET redis_key == to_prefixed_key(id, key)
        cache_result == get_cache_entry(redis, redis_key)
    IN  IF f \in {"connect", "get_entry"}
        THEN [redis |-> redis, ret |-> None, res |-> "panic", hit |-> FALSE]
        ELSE IF cache_result.some
        THEN [redis |-> redis,
              ret |-> IF f = "blob_read" THEN None ELSE read(storage, id, key),
              res |-> "ok", hit |-> TRUE]
        ELSE [redis |-> redis, ret |-> None, res |-> "ok", hit |-> FALSE]

\* get that reads the blob under the prefixed key instead of the cache key
get_prefixed_file(id, key, f) ==
    LET redis_key == to_prefixed_key(id, key)
        cache_result == get_cache_entry(redis, redis_key)
        rd1 == IF f = "atime" THEN redis
               ELSE update_cache_entry_atime(redis, redis_key, now,
                                             entries_zlist_key(id))
    IN  IF f \in {"connect", "get_entry"}
        THEN [redis |-> redis, ret |-> None, res |-> "panic", hit |-> FALSE]
        ELSE IF cache_result.some
        THEN [redis |-> rd1,
              ret |-> IF f = "blob_read" THEN None ELSE read(storage, id, redis_key),
              res |-> "ok", hit |-> TRUE]
        ELSE [redis |-> redis, ret |-> None, res |-> "ok", hit |-> FALSE]

\* the outcome of get(key) in which step f fails
get(id, key, f) ==
    LET redis_key == to_prefixed_key(id, key)
        cache_result == get_cache_entry(redis, redis_key)
        new_atime == now
        rd1 == IF f = "atime" THEN redis
               ELSE update_cache_entry_atime(redis, redis_key, new_atime,
                                             entries_zlist_key(id))
    IN  IF f \in {"connect", "get_entry"}
        THEN [redis |-> redis, ret |-> None, res |-> "panic", hit |-> FALSE]
        ELSE IF cache_result.some
        THEN [redis |-> rd1,
              ret |-> IF f = "blob_read" THEN None ELSE read(storage, id, key),
              res |-> "ok", hit |-> TRUE]
        ELSE [redis |-> redis, ret |-> None, res |-> "ok", hit |-> FALSE]

----------------------------------------------------------------------------
(* TtlRedisCache::put and get *)

\* a string key without expiry
NoExpiry == -1

\* a string key exists until its expiry time is reached
StrExists(rd, k) ==
    k \in DOMAIN rd /\ rd[k].t = "string" /\ (rd[k].exp = NoExpiry \/ rd[k].exp > now)

\* models::set: SET key "" (which also clears the expiry of the key)
models_set(rd, k) == Upd(rd, k, StrV(NoExpiry))

\* models::expire: EXPIRE key ttl
models_expire(rd, k, ttl) ==
    IF StrExists(rd, k) THEN Upd(rd, k, StrV(now + ttl)) ELSE rd

\* the keyspace events of the commands of put that succeeded
ttl_put_events(rd1, redis_key, f) ==
    (IF f = "set" THEN <<>> ELSE <<"set">>)
        \o (IF f # "expire" /\ StrExists(rd1, redis_key) THEN <<"expire">> ELSE <<>>)

ttl_put(id, key, entry, f) ==
    LET redis_key == to_redis_key(id, key)
        st1 == persist(storage, id, key, entry.bytes)
        rd1 == IF f = "set" THEN redis ELSE models_set(redis, redis_key)
        rd2 == IF f = "expire" THEN rd1 ELSE models_expire(rd1, redis_key, Ttl)
    IN  IF f = "connect"
        THEN [redis |-> redis, storage |-> storage, res |-> "panic", events |-> <<>>]
        ELSE [redis |-> rd2, storage |-> st1, res |-> "ok",
              events |-> ttl_put_events(rd1, redis_key, f)]

ttl_get(id, key, f) ==
    LET redis_key == to_redis_key(id, key)
    IN  IF f = "connect" THEN [ret |-> None, res |-> "panic"]
        ELSE IF f = "get" THEN [ret |-> None, res |-> "ok"]
        ELSE IF StrExists(redis, redis_key)
        THEN [ret |-> IF f = "blob_read" THEN None ELSE read(storage, id, key),
              res |-> "ok"]
        ELSE [ret |-> None, res |-> "ok"]

----------------------------------------------------------------------------
(* Keyspace notifications and the subscription of the expiration thread *)

\* from_redis_key: the cache key of a redis key of the instance
from_redis_key(id, key) == SubSeq(key, Len(id) + 2, Len(key))

\* a message on channel __keyspace@0__:<key>, whose payload is the event
Msg(key, kind) == [key |-> key, kind |-> kind]

\* psubscribe("__keyspace*__:<id>*"): the channels of the keys that start
\* with the id
matches(id, key) == Len(key) >= Len(id) /\ SubSeq(key, 1, Len(id)) = id

\* the server publishes the events its configuration selects: "Kx" the
\* expired events only, "KA" every event
selected(cfg, kind) == cfg = "KA" \/ kind = "expired"

\* a published message reaches the thread only while it is subscribed
publish(th, cfg, id, key, kind) ==
    IF th.sub /\ selected(cfg, kind) /\ matches(id, key)
    THEN [th EXCEPT !.inbox = Append(@, Msg(key, kind))]
    ELSE th

RECURSIVE publish_all(_, _, _, _, _)
publish_all(th, cfg, id, key, kinds) ==
    IF kinds = <<>> THEN th
    ELSE publish_all(publish(th, cfg, id, key, Head(kinds)), cfg, id, key, Tail(kinds))

----------------------------------------------------------------------------
(* The state machine *)

\* a call as its caller sees it: the operation and its arguments, the step
\* that failed in it (f), what it returned (ret) and whether it returned at
\* all (res); for an LRU put the outcome of the eviction transaction (tx),
\* the members it evicted, and total_size and the entry of the key as they
\* were when the call started (pre).  A step that is no call clears it.
Call(op, policy, id, key, data, f, ret, res, tx, evicted, pre) ==
    [op |-> op, policy |-> policy, id |-> id, key |-> key,
     data |-> data, f |-> f, ret |-> ret, res |-> res, tx |-> tx,
     evicted |-> evicted, pre |-> pre]

NoPre == [total |-> 0, entries |-> <<>>]

\* total_size of the instance and the entry hashes of the keys S, as a call
\* finds them
PreOf(id, S) ==
    [total |-> GetInt(redis, total_size_key(id)),
     entries |-> [m \in S |-> get_cache_entry(redis, m)]]

NoCall == Call("none", "none", "", "", <<>>, "none", None, "ok", "none", <<>>, NoPre)

Never == [st |-> "never", data |-> <<>>, atime |-> 0]
Evicted == [st |-> "evicted", data |-> <<>>, atime |-> 0]

\* the keys of the members a put evicted
EvictedKeys(id, evicted) == { from_prefixed_key(id, evicted[i]) : i \in 1..Len(evicted) }

\* what the callers know after put(key, b) on id: the evicted keys are gone,
\* and the key holds b when the put returned and b is within the limit
ShadowPut(id, key, b, o) ==
    [p \in DOMAIN shadow |->
        IF p[1] # id THEN shadow[p]
        ELSE IF p[2] = key
        THEN IF o.res = "ok" /\ Len(b) <= SizeLimit
             THEN [st |-> "present", data |-> b, atime |-> now]
             ELSE [st |-> "unknown", data |-> <<>>, atime |-> now]
        ELSE IF p[2] \in EvictedKeys(id, o.evicted) THEN Evicted
        ELSE shadow[p]]

\* after a get that returned a payload the key was accessed now
ShadowGet(id, key, o) ==
    IF o.ret.some
    THEN [shadow EXCEPT ![<<id, key>>] = [@ EXCEPT !.atime = now]]
    ELSE shadow

\* the LRU instances
LruIds == ids \ {TtlId}

\* std::thread::spawn(move || ...): the thread at the top of its loop, not
\* connected
ThreadSpawned == [pc |-> "loop", sub |-> FALSE, inbox |-> <<>>, closed_at |-> "none"]

\* the callers of resolve
Callers == 1..NCallers

\* a caller that has not called, and a worker that was not spawned
Idle == [pc |-> "idle", task |-> "none", resp |-> None, fg |-> 0, spawned |-> FALSE,
         bg_at_miss |-> FALSE]
NoWorker == [pc |-> "none", task |-> "none", up |-> "none"]

\* the concurrent callers of one LRU cache, and a caller that is in no call
Procs == {"p", "q"}

NoLruCall ==
    [pc |-> "idle", op |-> "none", key |-> "", data |-> <<>>, cur |-> 0,
     victim |-> "", pkg_size |-> None, evicted |-> <<>>, tx |-> "none",
     ret |-> None, at |-> "idle", quiet |-> FALSE, joined |-> FALSE]

InitWith(I) ==
    /\ redis = <<>>
    /\ ids = I
    /\ storage = [r \in I |-> <<>>]
    /\ now = 0
    /\ last = NoCall
    /\ shadow = [p \in (I \ {TtlId}) \X CacheKeys |-> Never]
    /\ pending_close = FALSE
    /\ thread = ThreadSpawned
    /\ task_set = {}
    /\ calls = [c \in Callers |-> Idle]
    /\ workers = [c \in Callers |-> NoWorker]
    /\ lru_calls = [p \in Procs |-> NoLruCall]

\* one LRU instance, as in the tests of one cache
Init == InitWith({"a"}) /\ notify = "Kx"

\* cache.put(key, entry) on the LRU instance id
LruPut(id, key, b, f) ==
    \E o \in put(id, key, BytesData(b), f) :
        /\ GetInt(o.redis, total_size_key(id)) <= MaxTotal
        /\ redis' = o.redis
        /\ storage' = o.storage
        /\ last' = Call("put", "lru", id, key, b, f, None, o.res,
                        o.tx, o.evicted,
                        PreOf(id, ZMembers(redis, entries_zlist_key(id))
                                  \cup {to_prefixed_key(id, key)}))
        /\ shadow' = ShadowPut(id, key, b, o)
        /\ UNCHANGED <<now, ids, ttlVars, tmVars, lru_calls>>

\* cache.get(key) on the LRU instance id
LruGet(id, key, f) ==
    LET o == get(id, key, f)
    IN  /\ redis' = o.redis
        /\ last' = Call("get", "lru", id, key, <<>>, f, o.ret,
                        o.res, IF o.hit THEN "hit" ELSE "miss", <<>>,
                        PreOf(id, {to_prefixed_key(id, key)}))
        /\ shadow' = ShadowGet(id, key, o)
        /\ UNCHANGED <<storage, now, ids, ttlVars, tmVars, lru_calls>>

\* cache.put(key, entry) on the TTL instance
TtlPut(key, b, f) ==
    LET o == ttl_put(TtlId, key, BytesData(b), f)
    IN  /\ TtlId \in ids
        /\ redis' = o.redis
        /\ storage' = o.storage
        /\ last' = Call("put", "ttl", TtlId, key, b, f, None, o.res,
                        "none", <<>>, NoPre)
        /\ thread' = publish_all(thread, notify, TtlId, to_redis_key(TtlId, key),
                                 o.events)
        /\ Len(thread'.inbox) <= MaxInbox
        /\ UNCHANGED <<now, ids, shadow, pending_close, notify, tmVars, lru_calls>>

\* cache.get(key) on the TTL instance
TtlGet(key, f) ==
    LET o == ttl_get(TtlId, key, f)
    IN  /\ TtlId \in ids
        /\ last' = Call("get", "ttl", TtlId, key, <<>>, f, o.ret,
                        o.res, "none", <<>>, NoPre)
        /\ UNCHANGED <<redis, storage, now, ids, shadow, ttlVars, tmVars, lru_calls>>

\* redis removes a string key whose expiry time was reached, and publishes
\* the expired event of the key
TtlExpire(k) ==
    /\ k \in DOMAIN redis
    /\ redis[k].t = "string"
    /\ redis[k].exp # NoExpiry
    /\ redis[k].exp <= now
    /\ redis' = Del(redis, k)
    /\ last' = NoCall
    /\ thread' = publish(thread, notify, TtlId, k, "expired")
    /\ Len(thread'.inbox) <= MaxInbox
    /\ UNCHANGED <<storage, now, ids, shadow, pending_close, notify, tmVars, lru_calls>>

\* one second passes
Tick ==
    /\ now < MaxTime
    /\ now' = now + 1
    /\ last' = NoCall
    /\ UNCHANGED <<redis, storage, ids, shadow, ttlVars, tmVars, lru_calls>>

\* the calls of the LRU policy when nothing fails
Next ==
    \/ \E id \in LruIds, key \in CacheKeys, b \in Payloads : LruPut(id, key, b, "none")
    \/ \E id \in LruIds, key \in CacheKeys : LruGet(id, key, "none")
    \/ Tick

Spec == Init /\ [][Next]_vars

\* two LRU instances of different ids on one metadata store, each with a
\* root directory of its own
InitShared == (\E I \in {{"a", "b"}, {"a", "a_b"}} : InitWith(I)) /\ notify = "Kx"

\* the cache keys and payloads of the callers of the two instances
SharedKeys == {"x", "b_x"}
SharedPayloads == {<<1, 1>>}

NextShared ==
    \/ \E id \in LruIds, key \in SharedKeys, b \in SharedPayloads :
          LruPut(id, key, b, "none")
    \/ \E id \in LruIds, key \in SharedKeys : LruGet(id, key, "none")
    \/ Tick

SpecShared == InitShared /\ [][NextShared]_vars

\* the calls of both policies, each with one step that fails or with none
FaultKeys == {"x"}
FaultPayloads == {<<1>>, <<1, 1, 1>>}

NextFault ==
    \/ \E id \in LruIds, key \in FaultKeys, b \in FaultPayloads,
          f \in LruPutFaults \cup {"none"} : LruPut(id, key, b, f)
    \/ \E id \in LruIds, key \in FaultKeys, f \in LruGetFaults \cup {"none"} :
          LruGet(id, key, f)
    \/ \E key \in FaultKeys, b \in FaultPayloads, f \in TtlPutFaults \cup {"none"} :
          TtlPut(key, b, f)
    \/ \E key \in FaultKeys, f \in TtlGetFaults \cup {"none"} : TtlGet(key, f)
    \/ \E key \in FaultKeys : TtlExpire(to_redis_key(TtlId, key))
    \/ Tick

\* one cache, an LRU cache or a TTL cache
InitFault == (\E I \in {{"a"}, {TtlId}} : InitWith(I)) /\ notify = "Kx"

SpecFault == InitFault /\ [][NextFault]_vars

\* the calls of one LRU cache on two keys, with payloads of one byte and of
\* size_limit bytes, in which storage.remove of a victim's blob can fail
EvictKeys == {"x", "y"}
EvictPayloads == {<<1>>, [i \in 1..SizeLimit |-> 1]}

NextEvict ==
    \/ \E id \in LruIds, key \in EvictKeys, b \in EvictPayloads,
          f \in {"none", "blob_rm"} : LruPut(id, key, b, f)
    \/ \E id \in LruIds, key \in EvictKeys : LruGet(id, key, "none")
    \/ Tick

SpecEvict == Init /\ [][NextEvict]_vars

----------------------------------------------------------------------------
(* LruRedisCache::put and get of concurrent callers, command by command *)

\* put and get are async fns on a multi-threaded runtime: the calls of
\* different callers run at the same time.  The closure of
\* redis::transaction issues its commands on the connection (con), nothing
\* is queued in the pipe: every command takes effect when it is issued, and
\* get_total_size reads the counter on a connection of its own.  Each redis
\* command and each blob operation is one step.

\* the instance the concurrent callers share
Lru == "a"

\* total_size is the sum of the sizes of the entries, and the index, the
\* entry hashes and the blobs name the same keys
ConsistentCache(rd, st, id) ==
    LET idx    == ZMembers(rd, entries_zlist_key(id))
        hashes == { k \in DOMAIN rd : rd[k].t = "hash" /\ matches(id \o "_", k) }
    IN  /\ GetInt(rd, total_size_key(id)) = SumSizes(rd, idx)
        /\ idx = hashes
        /\ { from_prefixed_key(id, m) : m \in idx } = Files(st, id)

\* a call that has begun and not ended
Running(c) == c.pc \notin {"idle", "done", "crashed", "panicked"}

\* a step of the call of p
LruCallStep(p, c, rd, st) ==
    /\ lru_calls' = [lru_calls EXCEPT ![p] = c]
    /\ redis' = rd
    /\ storage' = st
    /\ last' = NoCall
    /\ UNCHANGED <<now, ids, shadow, ttlVars, tmVars>>

\* The calls that are followed: a call is quiet when it begins while no
\* other call is in progress and the cache is consistent, and joined when it
\* begins during a quiet call.  Other calls are not followed.  The quiet
\* calls are those of caller "p"; a joined call is one of caller "q" and
\* begins before the quiet call has issued a command (a call that begins
\* later differs only in the steps it has not taken yet).
Quiet(p) ==
    /\ p = "p"
    /\ \A q \in Procs \ {p} : lru_calls[q].pc = "idle"
    /\ ConsistentCache(redis, storage, Lru)

Joined(p) ==
    /\ p = "q"
    /\ \E q \in Procs \ {p} :
          lru_calls[q].pc \in {"get_total", "get_entry"} /\ lru_calls[q].quiet

Begin(p, op, key, b, pc) ==
    [NoLruCall EXCEPT !.pc = pc, !.op = op, !.key = key, !.data = b,
                      !.quiet = Quiet(p), !.joined = Joined(p)]

\* put: entry.len() and get_sync_con
PutCall(p, key, b) ==
    /\ lru_calls[p].pc = "idle"
    /\ Quiet(p) \/ Joined(p)
    /\ LruCallStep(p, Begin(p, "put", key, b, "get_total"), redis, storage)

\* let mut cur_cache_size = self.get_total_size()
PutGetTotal(p) ==
    LET c == lru_calls[p]
        n == GetInt(redis, total_size_key(Lru))
    IN  /\ c.pc = "get_total"
        /\ LruCallStep(p, IF n < 0 THEN [c EXCEPT !.pc = "panicked", !.at = c.pc]
                           ELSE [c EXCEPT !.pc = "loop", !.cur = n],
                        redis, storage)

\* the test of the while loop and con.zpopmin(.., 1)
PutLoop(p) ==
    LET c  == lru_calls[p]
        zk == entries_zlist_key(Lru)
    IN  /\ c.pc = "loop"
        /\ IF c.cur + Len(c.data) <= SizeLimit
           THEN LruCallStep(p, [c EXCEPT !.pc = "persist", !.tx = "ok"], redis, storage)
           ELSE IF zpopmin(redis, zk) = {}
           THEN LruCallStep(p, [c EXCEPT !.pc = "persist", !.tx = "inconsistent"],
                            redis, storage)
           ELSE \E m \in zpopmin(redis, zk) :
                   LruCallStep(p, [c EXCEPT !.pc = "rm_blob", !.victim = m,
                                           !.evicted = Append(@, m)],
                               ZRem(redis, zk, m), storage)

\* self.storage.remove(&file)
PutRemoveBlob(p) ==
    LET c == lru_calls[p]
    IN  /\ c.pc = "rm_blob"
        /\ LruCallStep(p, [c EXCEPT !.pc = "hget"], redis,
                        remove(storage, Lru, from_prefixed_key(Lru, c.victim)))

\* con.hget(&f, "size")
PutHget(p) ==
    LET c == lru_calls[p]
    IN  /\ c.pc = "hget"
        /\ LruCallStep(p, [c EXCEPT !.pc = "del", !.pkg_size = hget_size(redis, c.victim)],
                        redis, storage)

\* the put whose del leaves the entry hash of the victim
PutDel_keeps(p) ==
    LET c == lru_calls[p]
    IN  /\ c.pc = "del"
        /\ LruCallStep(p, [c EXCEPT !.pc = "decr"], redis, storage)

\* con.del(&f)
PutDel(p) ==
    LET c == lru_calls[p]
    IN  /\ c.pc = "del"
        /\ LruCallStep(p, [c EXCEPT !.pc = "decr"], Del(redis, c.victim), storage)

\* con.decr(total_size_key, pkg_size.unwrap_or(0)): the counter is
\* decremented, and a result that is no u64 makes the unwrap panic
PutDecr(p) ==
    LET c   == lru_calls[p]
        new == GetInt(redis, total_size_key(Lru)) - unwrap_or(c.pkg_size, 0)
    IN  /\ c.pc = "decr"
        /\ LruCallStep(p, IF new < 0 THEN [c EXCEPT !.pc = "panicked", !.at = c.pc]
                           ELSE [c EXCEPT !.pc = "loop", !.cur = new,
                                          !.victim = "", !.pkg_size = None],
                        Upd(redis, total_size_key(Lru), IntV(new)), storage)

\* self.storage.persist(filename, &mut entry)
PutPersist(p) ==
    LET c == lru_calls[p]
    IN  /\ c.pc = "persist"
        /\ LruCallStep(p, [c EXCEPT !.pc = "set_entry"], redis,
                        persist(storage, Lru, c.key, c.data))

\* CacheEntry::new and models::set_lru_cache_entry
PutSetEntry(p) ==
    LET c == lru_calls[p]
        redis_key == to_prefixed_key(Lru, c.key)
        rd1 == set_lru_cache_entry(redis, redis_key,
                                   CacheEntryNew(redis_key, Len(c.data), now),
                                   total_size_key(Lru), entries_zlist_key(Lru))
    IN  /\ c.pc = "set_entry"
        /\ GetInt(rd1, total_size_key(Lru)) <= MaxTotal
        /\ LruCallStep(p, [c EXCEPT !.pc = "done"], rd1, storage)

\* get: get_sync_con
GetCall(p, key) ==
    /\ lru_calls[p].pc = "idle"
    /\ Quiet(p) \/ Joined(p)
    /\ LruCallStep(p, Begin(p, "get", key, <<>>, "get_entry"), redis, storage)

\* models::get_cache_entry: a miss returns None
GetEntry(p) ==
    LET c == lru_calls[p]
    IN  /\ c.pc = "get_entry"
        /\ LruCallStep(p, IF get_cache_entry(redis, to_prefixed_key(Lru, c.key)).some
                           THEN [c EXCEPT !.pc = "atime"]
                           ELSE [c EXCEPT !.pc = "done"],
                        redis, storage)

\* models::update_cache_entry_atime(con, redis_key, util::now(), zlist_key)
GetAtime(p) ==
    LET c == lru_calls[p]
    IN  /\ c.pc = "atime"
        /\ LruCallStep(p, [c EXCEPT !.pc = "read"],
                        update_cache_entry_atime(redis, to_prefixed_key(Lru, c.key),
                                                 now, entries_zlist_key(Lru)),
                        storage)

\* self.storage.read(filename)
GetRead(p) ==
    LET c == lru_calls[p]
    IN  /\ c.pc = "read"
        /\ LruCallStep(p, [c EXCEPT !.pc = "done", !.ret = read(storage, Lru, c.key)],
                        redis, storage)

\* the call returns to its caller (the callers of two concurrent calls are
\* followed until both calls have ended)
Return(p) ==
    /\ lru_calls[p].pc = "done"
    /\ \A q \in Procs : ~ Running(lru_calls[q])
    /\ LruCallStep(p, NoLruCall, redis, storage)

\* the process stops in the middle of a call: the stores stay as they are
Crash(p) ==
    LET c == lru_calls[p]
    IN  /\ Running(c)
        /\ LruCallStep(p, [c EXCEPT !.pc = "crashed", !.at = c.pc], redis, storage)

\* the process is started again
Restart(p) ==
    /\ lru_calls[p].pc = "crashed"
    /\ LruCallStep(p, NoLruCall, redis, storage)

\* the keys and payloads of the concurrent callers
StepKeys == {"x", "y"}
StepPayloads == {<<1>>, [i \in 1..SizeLimit |-> 1]}

\* a step of a call of p
LruCallNext(p) ==
    \/ \E key \in StepKeys, b \in StepPayloads : PutCall(p, key, b)
    \/ PutGetTotal(p)
    \/ PutLoop(p)
    \/ PutRemoveBlob(p)
    \/ PutHget(p)
    \/ PutDel(p)
    \/ PutDecr(p)
    \/ PutPersist(p)
    \/ PutSetEntry(p)
    \/ \E key \in StepKeys : GetCall(p, key)
    \/ GetEntry(p)
    \/ GetAtime(p)
    \/ GetRead(p)
    \/ Return(p)

\* one caller, whose process can stop at any step and be started again
NextCrash == LruCallNext("p") \/ Crash("p") \/ Restart("p")

SpecCrash == Init /\ [][NextCrash]_vars

\* two callers
NextConc == \E p \in Procs : LruCallNext(p)

SpecConc == Init /\ [][NextConc]_vars

----------------------------------------------------------------------------
(* The expiration thread of TtlRedisCache::new, and Drop *)

\* steps of the thread that can fail after the connection is made
SubscribeFaults == {"psubscribe", "set_timeout"}

\* a step of the thread: its new state and what it did to the blob store
ThreadStep(th, st, call) ==
    /\ TtlId \in ids
    /\ thread' = th
    /\ storage' = st
    /\ last' = call
    /\ UNCHANGED <<redis, now, ids, shadow, pending_close, notify, tmVars, lru_calls>>

\* the top of the outer loop: return when pending_close is set
ReaperLoop ==
    /\ thread.pc = "loop"
    /\ ThreadStep([thread EXCEPT !.pc = IF pending_close THEN "stopped" ELSE "connect"],
                  storage, NoCall)

\* cloned_client.get_connection(): Ok, or Err and then sleep_ms(3000)
ReaperConnect(ok) ==
    /\ thread.pc = "connect"
    /\ ThreadStep([thread EXCEPT !.pc = IF ok THEN "subscribe" ELSE "sleep_connect"],
                  storage, NoCall)

\* psubscribe and set_read_timeout: a failed psubscribe continues the outer
\* loop (the connection is dropped), a failed set_read_timeout panics
ReaperSubscribe(f) ==
    /\ thread.pc = "subscribe"
    /\ ThreadStep(IF f = "psubscribe" THEN [thread EXCEPT !.pc = "loop"]
                  ELSE IF f = "set_timeout" THEN [thread EXCEPT !.pc = "panicked"]
                  ELSE [thread EXCEPT !.pc = "poll", !.sub = TRUE],
                  storage, NoCall)

\* the inner loop without the test of pending_close
ReaperPoll_no_check ==
    /\ thread.pc = "poll"
    /\ ThreadStep([thread EXCEPT !.pc = "get_message"], storage, NoCall)

\* the top of the inner loop: return when pending_close is set (the
\* connection and its subscription are dropped)
ReaperPoll ==
    /\ thread.pc = "poll"
    /\ ThreadStep(IF pending_close
                  THEN [thread EXCEPT !.pc = "stopped", !.sub = FALSE, !.inbox = <<>>]
                  ELSE [thread EXCEPT !.pc = "get_message"],
                  storage, NoCall)

\* pubsub.get_message() with a read timeout of one second: a message, whose
\* file is removed whatever its event; or a timeout, which is ignored; or
\* another error (f = "error"), after which the thread sleeps and leaves the
\* inner loop, dropping the connection
ReaperGetMessage(f) ==
    /\ thread.pc = "get_message"
    /\ IF f = "error"
       THEN ThreadStep([thread EXCEPT !.pc = "sleep_msg", !.sub = FALSE, !.inbox = <<>>],
                       storage, NoCall)
       ELSE IF thread.inbox = <<>>
       THEN ThreadStep([thread EXCEPT !.pc = "poll"], storage, NoCall)
       ELSE LET msg == Head(thread.inbox)
                file == from_redis_key(TtlId, msg.key)
            IN  ThreadStep([thread EXCEPT !.pc = "poll", !.inbox = Tail(@)],
                           remove(storage, TtlId, file),
                           Call("reap", "ttl", TtlId, file, <<>>, "none", None, "ok",
                                msg.kind, <<>>, NoPre))

\* util::sleep_ms(3000), then the outer loop again
ReaperSleep ==
    /\ thread.pc \in {"sleep_connect", "sleep_msg"}
    /\ ThreadStep([thread EXCEPT !.pc = "loop"], storage, NoCall)

\* a step of the expiration thread
ReaperStep ==
    \/ ReaperLoop
    \/ \E ok \in BOOLEAN : ReaperConnect(ok)
    \/ \E f \in SubscribeFaults \cup {"none"} : ReaperSubscribe(f)
    \/ ReaperPoll
    \/ \E f \in {"none", "error"} : ReaperGetMessage(f)
    \/ ReaperSleep

\* the thread has returned or panicked: join returns
ThreadFinished == thread.pc \in {"stopped", "panicked"}

\* Drop for TtlRedisCache: store the flag, then join the thread
Drop ==
    /\ TtlId \in ids
    /\ ~ pending_close
    /\ pending_close' = TRUE
    /\ thread' = [thread EXCEPT !.closed_at = thread.pc]
    /\ last' = NoCall
    /\ UNCHANGED <<redis, storage, now, ids, shadow, notify, tmVars, lru_calls>>

\* the cache keys and payloads of the callers of the TTL cache
ReaperKeys == {"x"}
ReaperPayloads == {<<1>>}

\* a TTL cache with its expiration thread, until it is dropped
NextReaper ==
    \/ \E key \in ReaperKeys, b \in ReaperPayloads :
          ~ pending_close /\ TtlPut(key, b, "none")
    \/ \E key \in ReaperKeys : ~ pending_close /\ TtlGet(key, "none")
    \/ \E key \in ReaperKeys : TtlExpire(to_redis_key(TtlId, key))
    \/ Tick
    \/ ReaperStep
    \/ Drop

InitReaper == InitWith({TtlId}) /\ notify \in {"Kx", "KA"}

SpecReaper == InitReaper /\ [][NextReaper]_vars

\* The thread is scheduled, and its sleeps and its read timeout end; the
\* server is reached, accepts the subscription and delivers a message again
\* and again when the thread keeps trying; the server removes a key whose
\* expiry time was reached.
SpecReaperLive ==
    /\ InitReaper
    /\ [][NextReaper]_vars
    /\ WF_vars(ReaperStep)
    /\ SF_vars(ReaperConnect(TRUE))
    /\ SF_vars(ReaperSubscribe("none"))
    /\ SF_vars(ReaperGetMessage("none"))
    /\ WF_vars(\E key \in ReaperKeys : TtlExpire(to_redis_key(TtlId, key)))

----------------------------------------------------------------------------
(* Task and TaskManager (src/src/task.rs) *)

\* the tasks of the callers: an index task, whose refill reads the whole
\* body (rewrite), and a packages task, whose refill is a stream
PypiIndexTask(pkg_name) == [variant |-> "PypiIndexTask", name |-> pkg_name]
PypiPackagesTask(pkg_path) == [variant |-> "PypiPackagesTask", name |-> pkg_path]

\* Task::Others { rule_id, url }
OthersTask(rule_id, url) == [variant |-> "Others", name |-> url, rule_id |-> rule_id]

\* the rules that have a policy in cache_map (add_cache), and a rule that
\* has none
cache_map == {0}
UnknownRule == 1

Tasks == {PypiIndexTask("x"), PypiPackagesTask("x"), OthersTask(UnknownRule, "http://u")}

\* url.replace(from, to), for a url in which from occurs at most at the
\* start
replace(url, from, to) ==
    IF Len(url) >= Len(from) /\ SubSeq(url, 1, Len(from)) = from
    THEN to \o SubSeq(url, Len(from) + 1, Len(url))
    ELSE url

\* Task::to_key
to_key(task) ==
    IF task.variant = "PypiIndexTask" THEN "pypi_index_" \o task.name
    ELSE IF task.variant = "Others"
    THEN replace(replace(task.name, "http://", "http/"), "https://", "https/")
    ELSE task.name

\* TaskManager::get_cache_for_cache_rule: the policy of the rule, if one is
\* registered (the LRU instance)
get_cache_for_cache_rule(rule_id) == IF rule_id \in cache_map THEN Some("a") ELSE None

\* the task has a policy: the policy of its variant, or of its rule
has_cache(task) ==
    task.variant # "Others" \/ get_cache_for_cache_rule(task.rule_id).some

\* the policy of the task's variant (pypi_index_cache, pypi_pkg_cache): the
\* LRU instance; for Others the policy of its rule
cache_of(task) ==
    IF task.variant = "Others" THEN get_cache_for_cache_rule(task.rule_id).data ELSE "a"

\* TaskManager::get: get(key) of the task's policy; for Others with no
\* policy an error is logged and None returned
tm_get(task) ==
    IF has_cache(task) THEN get(cache_of(task), to_key(task), "none")
    ELSE [redis |-> redis, ret |-> None, res |-> "ok", hit |-> FALSE]

\* the match of spawn_task: only an index task is rewritten
rewrite(task) == task.variant = "PypiIndexTask"

\* the body upstream answers with
UpstreamBody == <<1>>

\* what the upstream request of a worker can come to: a response with a
\* Content-Length, a response without one, a response whose body cannot be
\* read, or no response
UpstreamOutcomes(task) ==
    IF rewrite(task) THEN {"ok", "body_err", "err"} ELSE {"ok", "no_length", "err"}

\* the payload a worker puts: the text of an index page (config.url is not
\* set: the text is not rewritten), or the stream of the response with the
\* length its Content-Length gives
refill_entry(task, up) ==
    IF rewrite(task) THEN TextData(UpstreamBody)
    ELSE ByteStream(UpstreamBody, IF up = "ok" THEN Some(Len(UpstreamBody)) ELSE None)

\* a worker that was spawned and has not finished
Active(w) == w.pc \in {"fetch", "put", "remove"}

\* the workers of task t that are active
ActiveFor(ws, t) == { c \in Callers : Active(ws[c]) /\ ws[c].task = t }

\* a step of caller c or of the worker it spawned
TmStep(cs, ws, ts) ==
    /\ calls' = cs
    /\ workers' = ws
    /\ task_set' = ts

\* resolve that goes on to spawn_task after a hit
after_get_spawns(ret) == "contains"

\* resolve after tm.get: return the cached data, or go on to spawn_task
after_get(ret) == IF ret.some THEN "done" ELSE "contains"

\* Task::resolve, up to the return on a hit: tm.get(task, key)
ResolveGet(c, t) ==
    LET o == tm_get(t)
    IN  /\ calls[c].pc = "idle"
        /\ redis' = o.redis
        /\ last' = NoCall
        /\ TmStep([calls EXCEPT ![c] = [@ EXCEPT !.pc = after_get(o.ret), !.task = t,
                                                !.resp = o.ret,
                                                !.bg_at_miss = ActiveFor(workers, t) # {}]],
                  workers, task_set)
        /\ UNCHANGED <<storage, now, ids, shadow, ttlVars, lru_calls>>

\* spawn_task: if self.taskset_contains(&task).await { return; }
SpawnContains(c) ==
    /\ calls[c].pc = "contains"
    /\ TmStep([calls EXCEPT ![c] = [@ EXCEPT !.pc = IF calls[c].task \in task_set
                                                     THEN "request" ELSE "add"]],
              workers, task_set)
    /\ last' = NoCall
    /\ UNCHANGED <<redis, storage, now, ids, shadow, ttlVars, lru_calls>>

\* spawn_task: self.taskset_add(task).await, the match on the variant, then
\* tokio::spawn of the worker.  For Others the match unwraps
\* get_cache_for_cache_rule(rule_id): with no policy for the rule it
\* panics, after the task was added and before a worker is spawned, and the
\* panic ends resolve, which awaits spawn_task.
SpawnAdd(c) ==
    /\ calls[c].pc = "add"
    /\ IF has_cache(calls[c].task)
       THEN TmStep([calls EXCEPT ![c] = [@ EXCEPT !.pc = "request", !.spawned = TRUE]],
                   [workers EXCEPT ![c] = [pc |-> "fetch", task |-> calls[c].task,
                                           up |-> "none"]],
                   task_set \cup {calls[c].task})
       ELSE TmStep([calls EXCEPT ![c] = [@ EXCEPT !.pc = "panicked"]],
                   workers, task_set \cup {calls[c].task})
    /\ last' = NoCall
    /\ UNCHANGED <<redis, storage, now, ids, shadow, ttlVars, lru_calls>>

\* resolve: util::make_request(&remote_url) of the caller, and the response
\* or the error it returns
ResolveRequest(c, ok) ==
    /\ calls[c].pc = "request"
    /\ TmStep([calls EXCEPT ![c] = [@ EXCEPT !.pc = IF ok THEN "done" ELSE "failed",
                                            !.fg = @ + 1,
                                            !.resp = IF ok THEN Some(UpstreamBody)
                                                     ELSE None]],
              workers, task_set)
    /\ last' = NoCall
    /\ UNCHANGED <<redis, storage, now, ids, shadow, ttlVars, lru_calls>>

\* the worker: util::make_request(&upstream_url) and, for an index task,
\* res.text(): when the body cannot be read the worker returns
WorkerFetch(c, up) ==
    /\ workers[c].pc = "fetch"
    /\ up \in UpstreamOutcomes(workers[c].task)
    /\ TmStep(calls,
              [workers EXCEPT ![c] = [@ EXCEPT !.up = IF up \in {"ok", "no_length"}
                                                     THEN up ELSE "none",
                                              !.pc = IF up = "err" THEN "remove"
                                                     ELSE IF up = "body_err" THEN "returned"
                                                     ELSE "put"]],
              task_set)
    /\ last' = NoCall
    /\ UNCHANGED <<redis, storage, now, ids, shadow, ttlVars, lru_calls>>

\* the worker: c.put(&task_clone.to_key(), ...); a panic of put ends the
\* worker
WorkerPut(c) ==
    LET t == workers[c].task
        e == refill_entry(t, workers[c].up)
    IN  /\ workers[c].pc = "put"
        /\ \E o \in put(cache_of(t), to_key(t), e, "none") :
              /\ redis' = o.redis
              /\ storage' = o.storage
              /\ last' = NoCall
              /\ TmStep(calls,
                        [workers EXCEPT ![c] = [@ EXCEPT !.up = "none",
                                                        !.pc = IF o.res = "ok"
                                                               THEN "remove"
                                                               ELSE "panicked"]],
                        task_set)
        /\ UNCHANGED <<now, ids, shadow, ttlVars, lru_calls>>

\* the worker that returns without taskset_remove
WorkerRemove_keeps(c) ==
    /\ workers[c].pc = "remove"
    /\ TmStep(calls, [workers EXCEPT ![c] = [@ EXCEPT !.pc = "done"]], task_set)
    /\ last' = NoCall
    /\ UNCHANGED <<redis, storage, now, ids, shadow, ttlVars, lru_calls>>

\* the worker: Self::taskset_remove(task_list_ptr.clone(), &task_clone)
WorkerRemove(c) ==
    /\ workers[c].pc = "remove"
    /\ TmStep(calls, [workers EXCEPT ![c] = [@ EXCEPT !.pc = "done"]],
              task_set \ {workers[c].task})
    /\ last' = NoCall
    /\ UNCHANGED <<redis, storage, now, ids, shadow, ttlVars, lru_calls>>

\* a step of a worker
WorkerStep ==
    \/ \E c \in Callers, up \in {"ok", "no_length", "body_err", "err"} : WorkerFetch(c, up)
    \/ \E c \in Callers : WorkerPut(c)
    \/ \E c \in Callers : WorkerRemove(c)

\* the callers of a run resolve one task, and call in the order of their
\* numbers
SameTask(t) == \A c \in Callers : calls[c].pc # "idle" => calls[c].task = t

InOrder(c) == \A d \in Callers : d < c => calls[d].pc # "idle"

\* concurrent calls of resolve and the workers they spawn
NextTask ==
    \/ \E c \in Callers, t \in Tasks : SameTask(t) /\ InOrder(c) /\ ResolveGet(c, t)
    \/ \E c \in Callers : SpawnContains(c)
    \/ \E c \in Callers : SpawnAdd(c)
    \/ \E c \in Callers, ok \in BOOLEAN : ResolveRequest(c, ok)
    \/ WorkerStep

InitTask == InitWith({"a"}) /\ notify = "Kx"

SpecTask == InitTask /\ [][NextTask]_vars

\* the runtime runs every spawned worker, and its requests come to an end
SpecTaskLive == InitTask /\ [][NextTask]_vars /\ WF_vars(WorkerStep)

----------------------------------------------------------------------------
(* What the claims speak of *)

\* total_size of the instance
TotalIn(rd, id) == GetInt(rd, total_size_key(id))
TotalSize(id) == TotalIn(redis, id)

\* the members of the entries index of the instance
Index(rd, id) == ZMembers(rd, entries_zlist_key(id))

\* the members a put evicted: all of them, and the first i of them
EvictedSet(ev) == { ev[j] : j \in 1..Len(ev) }
EvictedUpTo(ev, i) == { ev[j] : j \in 1..i }

\* the last call was an LRU put, or get, that returned
PutReturned == last.op = "put" /\ last.policy = "lru" /\ last.res = "ok"
GetReturned == last.op = "get" /\ last.policy = "lru" /\ last.res = "ok"

\* this step is a call of put, or of get, on an LRU instance
PutStep == last'.op = "put" /\ last'.policy = "lru"
GetStep == last'.op = "get" /\ last'.policy = "lru"

\* the redis key of the last call, and of the call of this step
LastKey == to_prefixed_key(last.id, last.key)
StepKey == to_prefixed_key(last'.id, last'.key)

----------------------------------------------------------------------------
\* C1: every time an LRU put returns, total_size <= size_limit, for any keys
\* and any payload sizes, sizes above the limit included.
C1_SizeBound == PutReturned => TotalSize(last.id) <= SizeLimit

\* C2: after every LRU put and get that returns, total_size is the sum of the
\* size fields of the entry hashes of the members of the entries index (and
\* every member has an entry hash).
C2_SizeAccounting ==
    (PutReturned \/ GetReturned) =>
        /\ \A m \in Index(redis, last.id) : HExists(redis, m)
        /\ TotalSize(last.id) = SumSizes(redis, Index(redis, last.id))

\* a put that evicted an entry and left two entries, of sizes 1 and 2
C2_Witness ==
    /\ PutReturned
    /\ Len(last.evicted) >= 1
    /\ Cardinality(Index(redis, last.id)) = 2
    /\ TotalSize(last.id) = 3

\* C3: an LRU put of a payload longer than size_limit is skipped entirely:
\* nothing is evicted, no blob is written or removed, and total_size, the
\* entries index and every entry hash stay as they were.
C3_OversizeSkipped ==
    [][(PutStep /\ Len(last'.data) > SizeLimit) =>
          /\ last'.evicted = <<>>
          /\ redis' = redis
          /\ storage' = storage]_vars

\* the scores of the entries index are pairwise distinct, so that the order
\* in which its members are popped is fixed
DistinctScores(rd, id) ==
    \A m, o \in Index(rd, id) :
        m # o => ZScore(rd, entries_zlist_key(id), m) # ZScore(rd, entries_zlist_key(id), o)

\* C4 as stated: when put(k, v2) overwrites the entry stored by put(k, v1),
\* total_size after the put is total_size before it plus |v2| - |v1|
\* (stated here for the payloads within the limit and for an index without
\* equal scores).
C4_RePutDelta ==
    [][(PutStep /\ last'.res = "ok" /\ HExists(redis, StepKey)
             /\ last'.key \in Files(storage, last'.id)
             /\ Len(last'.data) <= SizeLimit
             /\ DistinctScores(redis, last'.id)) =>
          TotalIn(redis', last'.id) =
              TotalIn(redis, last'.id) + Len(last'.data)
                  - Len(storage[last'.id][last'.key])]_vars

\* C4 amended: when put(k, v2) overwrites the entry stored by put(k, v1),
\* total_size after the put is total_size before it, minus the sizes of the
\* other entries this put evicted, plus |v2| - |v1|.
C4_RePutDeltaEvicting ==
    [][(PutStep /\ last'.res = "ok" /\ HExists(redis, StepKey)
             /\ last'.key \in Files(storage, last'.id)) =>
          TotalIn(redis', last'.id) =
              TotalIn(redis, last'.id)
                  - SumSizes(redis, EvictedSet(last'.evicted) \ {StepKey})
                  + Len(last'.data) - Len(storage[last'.id][last'.key])]_vars

\* a put that overwrote an entry of its key and evicted an entry of
\* another key
C4_Witness ==
    /\ PutReturned
    /\ last.pre.entries[LastKey].some
    /\ last.pre.entries[LastKey].data.size # Len(last.data)
    /\ \E m \in EvictedSet(last.evicted) : m # LastKey

\* C5: a get that returns gives exactly the payload of the latest put of the
\* key when that put was within the limit and the key was not evicted
\* since, and None for a key that was evicted or never put.
C5_GetReturnsLatest ==
    GetReturned =>
        LET sh == shadow[<<last.id, last.key>>]
        IN  /\ sh.st = "present" => last.ret = Some(sh.data)
            /\ sh.st \in {"never", "evicted"} => last.ret = None

\* a get that returned the payload of the second put of its key, while
\* another key was evicted
C5_Witness ==
    /\ GetReturned
    /\ last.ret = Some(<<2>>)
    /\ \E k \in CacheKeys : shadow[<<last.id, k>>].st = "evicted"
    /\ now >= 1

\* the keys that are in the cache, by the calls made
Live(id) == { k \in CacheKeys : shadow[<<id, k>>].st \in {"present", "unknown"} }

\* C6: every eviction removes an entry of the smallest last-access time
\* (the time of its latest put or get hit): no entry that is in the cache
\* when a member is evicted, and stays, was accessed strictly earlier.
C6_EvictsLeastRecent ==
    [][PutStep =>
          \A i \in 1..Len(last'.evicted) :
              LET v == from_prefixed_key(last'.id, last'.evicted[i])
                  gone == EvictedKeys(last'.id, SubSeq(last'.evicted, 1, i))
              IN  /\ v \in Live(last'.id)
                  /\ \A k \in Live(last'.id) \ gone :
                        shadow[<<last'.id, v>>].atime
                            <= shadow[<<last'.id, k>>].atime]_vars

\* a put that evicted an entry and left one that was accessed later than
\* the evicted one
C6_Witness ==
    /\ PutReturned
    /\ last.evicted # <<>>
    /\ \E m \in DOMAIN last.pre.entries \ (EvictedSet(last.evicted) \cup {LastKey}) :
          /\ last.pre.entries[m].some
          /\ \E e \in EvictedSet(last.evicted) :
                last.pre.entries[e].data.atime < last.pre.entries[m].data.atime

\* the stored atime of a member
Atime(rd, m) == rd[m].atime

\* m has the maximum atime among the members S
MaxAtime(rd, S, m) == \A o \in S : Atime(rd, o) <= Atime(rd, m)

\* m has an atime above that of every other member of S
NewestOf(rd, S, m) == \A o \in S \ {m} : Atime(rd, o) < Atime(rd, m)

\* C7 as stated: the entry with the maximum atime at the moment of an
\* eviction is never the one evicted (stated here for the payloads within
\* the limit and for the entries of the other keys).
C7_MaxAtimeNeverEvicted ==
    [][(PutStep /\ Len(last'.data) <= SizeLimit) =>
          \A i \in 1..Len(last'.evicted) :
              last'.evicted[i] # StepKey =>
                  ~ MaxAtime(redis,
                             Index(redis, last'.id) \ EvictedUpTo(last'.evicted, i - 1),
                             last'.evicted[i])]_vars

\* C7 amended: the entry whose atime is above that of every other entry at
\* the moment of an eviction is not the one evicted when the payload of the
\* put fits beside it (its size + |v| <= size_limit).
C7_NewestKeptWhenFits ==
    [][PutStep =>
          \A i \in 1..Len(last'.evicted) :
              LET rest == Index(redis, last'.id) \ EvictedUpTo(last'.evicted, i - 1)
              IN  \A m \in rest :
                     (/\ NewestOf(redis, rest, m)
                      /\ redis[m].size + Len(last'.data) <= SizeLimit)
                     => last'.evicted[i] # m]_vars

\* a put that evicted an entry and kept the newest entry, which is not the
\* entry of its own key
C7_Witness ==
    /\ PutReturned
    /\ last.evicted # <<>>
    /\ \E m \in Index(redis, last.id) \ {LastKey} :
          /\ m \in DOMAIN last.pre.entries
          /\ \A o \in DOMAIN last.pre.entries \ {m} :
                /\ last.pre.entries[o].some
                /\ last.pre.entries[o].data.atime < last.pre.entries[m].data.atime
          /\ last.pre.entries[m].data.size + Len(last.data) <= SizeLimit

\* C8: a get that hits sets the atime of the entry hash and the score of the
\* key in the entries index to the current time; the stored atime does not
\* decrease, and it increases when at least one second passed since the
\* previous put or get of the key.
C8_GetRefreshesAtime ==
    [][(GetStep /\ last'.res = "ok" /\ last'.tx = "hit") =>
          /\ Atime(redis', StepKey) = now
          /\ ZScore(redis', entries_zlist_key(last'.id), StepKey) = now
          /\ Atime(redis', StepKey) >= Atime(redis, StepKey)
          /\ (now >= shadow[<<last'.id, last'.key>>].atime + 1
                => Atime(redis', StepKey) > Atime(redis, StepKey))]_vars

\* a get that hit an entry one second or more after its previous access
C8_Witness ==
    /\ GetReturned
    /\ last.tx = "hit"
    /\ last.ret.some
    /\ last.pre.entries[LastKey].data.atime < Atime(redis, LastKey)
    /\ Atime(redis, LastKey) = now

\* the entry hashes of the instance, for the cache keys of the callers
HashesOf(rd, id) ==
    [k \in CacheKeys |-> get_cache_entry(rd, to_prefixed_key(id, k))]

\* the entries index of the instance, with its scores
IndexOf(rd, id) ==
    IF entries_zlist_key(id) \in DOMAIN rd THEN rd[entries_zlist_key(id)].m ELSE <<>>

\* C9: two LRU instances of different ids on one metadata store do not
\* affect each other: a put or get on one leaves total_size, the entries
\* index and the entry hashes of the other unchanged, and a get of a key
\* that was put only on the other returns None.
C9_Isolation ==
    [][(PutStep \/ GetStep) =>
          /\ \A o \in LruIds \ {last'.id} :
                /\ TotalIn(redis', o) = TotalIn(redis, o)
                /\ IndexOf(redis', o) = IndexOf(redis, o)
                /\ HashesOf(redis', o) = HashesOf(redis, o)
          /\ (GetStep /\ shadow[<<last'.id, last'.key>>].st = "never")
                => last'.ret = None]_vars

\* C10: the cache layer never fails its caller: whatever step of a put or a
\* get fails in the metadata store or the blob store, for the LRU and the
\* TTL policy, put returns normally and get returns None.
C10_NeverFailsCaller ==
    last.op \in {"put", "get"} =>
        /\ last.res = "ok"
        /\ (last.op = "get" /\ last.f # "none") => last.ret = None

\* the blob of cache key k of the TTL instance
TtlBlob(k) == k \in Files(storage, TtlId)

\* the metadata key of k is in the store (expired or not)
TtlMarker(k) == to_redis_key(TtlId, k) \in DOMAIN redis

\* C11: in a TTL cache that is not dropped and whose expiration thread runs,
\* once the metadata key of k has expired and was removed while the blob of
\* k is there, the blob is removed eventually, unless k is put again;
\* whatever the thread was doing when the key expired (stated here for a
\* server that publishes the expired events only).
C11_BlobReapedAfterExpiry ==
    \A k \in ReaperKeys :
        (notify = "Kx" /\ TtlBlob(k) /\ ~ TtlMarker(k))
            ~> (~ TtlBlob(k) \/ TtlMarker(k) \/ pending_close \/ ThreadFinished)

\* C12: the thread removes the blob of a key only when the metadata key of
\* that key does not exist (stated here for a server that publishes the
\* expired events only).
C12_ReapOnlyAfterExpiry ==
    [][(last'.op = "reap" /\ notify = "Kx" /\ last'.key \in Files(storage, TtlId))
          => ~ StrExists(redis, to_redis_key(TtlId, last'.key))]_vars

\* C13: once drop has set pending_close the expiration thread finishes, from
\* wherever it is, so that join returns.
C13_DropTerminates == pending_close ~> ThreadFinished

\* the thread returned after drop found it sleeping after a get_message
\* error
C13_Witness ==
    /\ pending_close
    /\ thread.pc = "stopped"
    /\ thread.closed_at = "sleep_msg"

\* C14: at most one background worker of a task is active at any time.
C14_OneWorkerPerTask ==
    \A t \in Tasks : Cardinality(ActiveFor(workers, t)) <= 1

\* C15: a task that is in the in-flight set leaves it eventually, whatever
\* its worker's request comes to (stated here for the runs in which no
\* worker panics).
C15_InFlightRemoved ==
    \A t \in Tasks :
        (t \in task_set /\ \A c \in Callers : workers[c].pc # "panicked")
            ~> (t \notin task_set \/ \E c \in Callers : workers[c].pc = "panicked")

\* C16: when the get of resolve returns a payload, resolve returns a response
\* made of that payload, issues no upstream request and spawns no worker,
\* and the in-flight set and the workers stay as they were.
C16_HitReturnsCached ==
    [][\A c \in Callers :
          (/\ calls[c].pc = "idle"
           /\ calls'[c].pc # "idle"
           /\ tm_get(calls'[c].task).ret.some) =>
              /\ calls'[c].pc = "done"
              /\ calls'[c].resp = read(storage, cache_of(calls'[c].task),
                                       to_key(calls'[c].task))
              /\ calls'[c].fg = 0
              /\ ~ calls'[c].spawned
              /\ task_set' = task_set
              /\ workers' = workers]_vars

\* a call that returned the cached payload while the worker of another call
\* was still in the in-flight set
C16_Witness ==
    \E c \in Callers :
        /\ calls[c].pc = "done"
        /\ calls[c].fg = 0
        /\ calls[c].resp = Some(UpstreamBody)
        /\ calls[c].task \in task_set

\* C17: a call of resolve that missed while a worker of its task was active
\* spawns no worker while one is active, and it returns only after an
\* upstream request of its own.
C17_SecondMissNoSecondWorker ==
    [][\A c \in Callers :
          /\ (calls[c].bg_at_miss /\ ActiveFor(workers, calls[c].task) # {})
                => (calls'[c].spawned = calls[c].spawned)
          /\ (calls[c].pc = "request" /\ calls'[c].pc # "request")
                => calls'[c].fg = 1]_vars

\* C19: the put of a stream of unknown length by a worker leaves the cache
\* as it was and the worker goes on to remove its task from the in-flight
\* set.
C19_UnknownLengthNotAdmitted ==
    [][\A c \in Callers :
          (workers[c].pc = "put" /\ workers[c].up = "no_length"
               /\ workers'[c].pc # "put") =>
              /\ redis' = redis
              /\ storage' = storage
              /\ workers'[c].pc = "remove"]_vars

\* the cache keys of the instance that are in its entries index, that have
\* an entry hash, and that have a blob
IndexKeys(id) == { from_prefixed_key(id, m) : m \in Index(redis, id) }

HashKeys(id) ==
    { from_prefixed_key(id, r) :
        r \in { q \in DOMAIN redis : redis[q].t = "hash" /\ matches(id \o "_", q) } }

BlobKeys(id) == Files(storage, id)

\* C18: in an LRU cache, between the calls of put, the keys of the entries
\* index, the keys that have an entry hash and the keys that have a blob are
\* the same.
C18_IndexHashBlobCoincide ==
    \A id \in LruIds : IndexKeys(id) = HashKeys(id) /\ HashKeys(id) = BlobKeys(id)

\* C20: an LRU put in which nothing fails and whose eviction finds the
\* metadata inconsistent (the index empty while room is needed, or a popped
\* member without entry hash) is abandoned: the blob of the key is not
\* written, no entry hash and no index member is added for the key,
\* total_size does not grow, and put returns.
C20_InconsistentAbandoned ==
    [][(/\ PutStep
        /\ last'.f = "none"
        /\ \/ last'.tx = "inconsistent"
           \/ \E i \in 1..Len(last'.evicted) : ~ HExists(redis, last'.evicted[i])) =>
          /\ last'.res = "ok"
          /\ read(storage', last'.id, last'.key) \in {None, read(storage, last'.id, last'.key)}
          /\ ~ HExists(redis, StepKey) => ~ HExists(redis', StepKey)
          /\ StepKey \notin Index(redis, last'.id) => StepKey \notin Index(redis', last'.id)
          /\ TotalIn(redis', last'.id) <= TotalIn(redis, last'.id)]_vars

----------------------------------------------------------------------------
\* the sizes, as the put of this step found them, of the members it evicted
\* and of an entry of its own key that it did not evict
PreSize(m) == unwrap_or(last'.pre.entries[m], [size |-> 0]).size
RECURSIVE PreSizes(_)
PreSizes(S) ==
    IF S = {} THEN 0
    ELSE LET m == CHOOSE x \in S : TRUE IN PreSize(m) + PreSizes(S \ {m})

\* C21: when storage.remove of a victim's blob fails during the eviction of
\* an LRU put, the eviction is not aborted: the put returns, the entry hash
\* of every victim is deleted and the victim is out of the index, total_size
\* is decremented by the victims' sizes, and the new entry is admitted (its
\* hash holds the new size, its blob is the payload, the key is in the
\* index).
C21_RemoveFailureDoesNotAbort ==
    [][ (PutStep /\ last'.f = "blob_rm" /\ last'.evicted # <<>>) =>
        LET id == last'.id
            ev == EvictedSet(last'.evicted)
        IN  /\ last'.res = "ok"
            /\ last'.tx = "ok"
            /\ \A m \in ev \ {StepKey} :
                   ~ HExists(redis', m) /\ m \notin Index(redis', id)
            /\ TotalIn(redis', id)
                 = last'.pre.total - PreSizes(ev \cup {StepKey}) + Len(last'.data)
            /\ HExists(redis', StepKey)
            /\ redis'[StepKey].size = Len(last'.data)
            /\ StepKey \in Index(redis', id)
            /\ read(storage', id, last'.key) = Some(last'.data) ]_vars

\* a put evicted the entry of another key, whose blob could not be removed
\* and is still in the blob store
C21_Witness ==
    /\ PutReturned
    /\ last.f = "blob_rm"
    /\ \E m \in EvictedSet(last.evicted) :
          /\ m # LastKey
          /\ ~ HExists(redis, m)
          /\ from_prefixed_key(last.id, m) \in Files(storage, last.id)

----------------------------------------------------------------------------
\* where a put is while it evicts, and where it is once its evictions are
\* done, before the blob is written and before the metadata is set
Evicting == {"get_total", "loop", "rm_blob", "hget", "del", "decr"}
Admitting == {"persist", "set_entry"}

\* the process stopped in a put that found the cache consistent, at pc
CrashedAt(p, pc) ==
    /\ lru_calls[p].pc = "crashed"
    /\ lru_calls[p].op = "put"
    /\ lru_calls[p].quiet
    /\ lru_calls[p].at = pc

\* C22 as the spec states it: within one LRU put a crash after the
\* evictions and before the admission is complete (before the blob is
\* written, or between the blob and the metadata) leaves a consistent
\* cache: total_size is the sum of the sizes of the entries, and the index,
\* the entry hashes and the blobs name the same keys.
C22_CrashLeavesConsistent ==
    \A p \in Procs :
        (\E pc \in Admitting : CrashedAt(p, pc)) => ConsistentCache(redis, storage, Lru)

\* C22, amended: within one LRU put no eviction step follows the write of
\* the blob or the insert of the metadata, no victim is half evicted when
\* the blob is written, and a crash after the evictions and before the
\* blob is written leaves a consistent cache.
C22_EvictionBeforeAdmission ==
    /\ [](\A p \in Procs :
            /\ CrashedAt(p, "persist") => ConsistentCache(redis, storage, Lru)
            /\ (lru_calls[p].pc = "persist" /\ lru_calls[p].quiet)
                  => ConsistentCache(redis, storage, Lru))
    /\ [][\A p \in Procs :
            lru_calls[p].pc \in Admitting => lru_calls'[p].pc \notin Evicting]_vars

\* the process stopped after a put had evicted an entry and before it
\* wrote its blob
C22_Witness ==
    /\ CrashedAt("p", "persist")
    /\ lru_calls["p"].evicted # <<>>
    /\ lru_calls["p"].tx = "ok"
    /\ lru_calls["p"].key \notin Files(storage, Lru)

----------------------------------------------------------------------------
\* two concurrent calls have both ended: the call of p began on a
\* consistent cache with no other call in progress, the call of q during it
BothDone ==
    /\ lru_calls["p"].pc = "done" /\ lru_calls["p"].quiet
    /\ lru_calls["q"].pc = "done" /\ lru_calls["q"].joined

\* C23: when two concurrent LRU puts on the same key with payloads v1 and
\* v2 have both returned, the state reflects exactly one of the writes: the
\* blob of the key is v1 or v2, the size of the entry hash is the length of
\* that blob, the key is in the index, and total_size is the sum of the
\* sizes of the entries (the size is counted once).
C23_ConcurrentSameKey ==
    (/\ BothDone
     /\ lru_calls["p"].op = "put" /\ lru_calls["q"].op = "put"
     /\ lru_calls["p"].key = lru_calls["q"].key) =>
        LET key == lru_calls["p"].key
            rk  == to_prefixed_key(Lru, key)
        IN  /\ \E v \in {lru_calls["p"].data, lru_calls["q"].data} :
                  /\ read(storage, Lru, key) = Some(v)
                  /\ hget_size(redis, rk) = Some(Len(v))
            /\ rk \in Index(redis, Lru)
            /\ TotalSize(Lru) = SumSizes(redis, Index(redis, Lru))

\* C24: when two concurrent LRU puts on different keys, each with a payload
\* within the limit, have both returned, total_size <= size_limit.
C24_ConcurrentTotalBound ==
    (/\ BothDone
     /\ lru_calls["p"].op = "put" /\ lru_calls["q"].op = "put"
     /\ lru_calls["p"].key # lru_calls["q"].key) =>
        TotalSize(Lru) <= SizeLimit

----------------------------------------------------------------------------
\* the metadata marker keys of the TTL instance that exist
Markers == { k \in DOMAIN redis : redis[k].t = "string" /\ matches(TtlId \o "/", k) }

\* C25: in a TTL cache every metadata marker key that exists has a time to
\* live, and what remains of it is at most the configured ttl; also after a
\* put whose expire command failed.
C25_MarkerHasTtl ==
    \A k \in Markers :
        /\ redis[k].exp # NoExpiry
        /\ redis[k].exp - now <= Ttl

----------------------------------------------------------------------------
\* the state of the reaper's state machine the thread is in: Disconnected
\* at the top of the outer loop, while it connects and while it sleeps;
\* Subscribing once connected; Polling in the inner loop; Stopped when the
\* thread has ended
ReaperState(th) ==
    IF th.pc \in {"loop", "connect", "sleep_connect", "sleep_msg"} THEN "Disconnected"
    ELSE IF th.pc = "subscribe" THEN "Subscribing"
    ELSE IF th.pc \in {"poll", "get_message"} THEN "Polling"
    ELSE "Stopped"

\* C26: the reaper follows its state machine: it comes to Subscribing only
\* from a connect, to Polling only from Subscribing (connect and subscribe
\* succeeded) or from Polling (a message or a read timeout); it leaves
\* Polling for Disconnected only by an error of get_message, and it ends
\* (Stopped) only when the shutdown flag is set.
C26_ReaperStateMachine ==
    [][ LET a == ReaperState(thread)
            b == ReaperState(thread')
        IN  /\ (b = "Subscribing" /\ a # b) => thread.pc = "connect"
            /\ (b = "Polling" /\ a # b) => a = "Subscribing"
            /\ (a = "Polling" /\ b = "Disconnected") =>
                   thread.pc = "get_message" /\ thread'.pc = "sleep_msg"
            /\ (a = "Polling" /\ b # a) => b \in {"Disconnected", "Stopped"}
            /\ (b = "Stopped" /\ a # b) => pending_close ]_vars

\* C26 without its last part: the transitions between Disconnected,
\* Subscribing and Polling
C26_LiveTransitions ==
    [][ LET a == ReaperState(thread)
            b == ReaperState(thread')
        IN  /\ (b = "Subscribing" /\ a # b) => thread.pc = "connect"
            /\ (b = "Polling" /\ a # b) => a = "Subscribing"
            /\ (a = "Polling" /\ b = "Disconnected") =>
                   thread.pc = "get_message" /\ thread'.pc = "sleep_msg"
            /\ (a = "Polling" /\ b # a) => b \in {"Disconnected", "Stopped"} ]_vars

----------------------------------------------------------------------------
\* C27: an LRU put of a new key with a payload within the limit evicts no
\* entry when total_size + |v| <= size_limit; otherwise it evicts the
\* shortest prefix of the entries in ascending order of atime whose removal
\* makes total_size + |v| <= size_limit (the victims come in ascending
\* order, no entry that stays is older than a victim, the victims make room
\* and without the last of them there is no room); every entry that is not
\* evicted keeps its hash, its index score and its blob.
C27_EvictsShortestPrefix ==
    [][ (/\ PutStep
         /\ last'.res = "ok"
         /\ ~ last'.pre.entries[StepKey].some
         /\ Len(last'.data) <= SizeLimit) =>
        LET id    == last'.id
            zk    == entries_zlist_key(id)
            ev    == last'.evicted
            n     == Len(ev)
            total == last'.pre.total
            v     == Len(last'.data)
            stay  == Index(redis, id) \ EvictedSet(ev)
        IN  /\ total + v <= SizeLimit => ev = <<>>
            /\ total + v > SizeLimit =>
                  /\ n > 0
                  /\ Cardinality(EvictedSet(ev)) = n
                  /\ EvictedSet(ev) \subseteq Index(redis, id)
                  /\ \A i, j \in 1..n :
                        i < j => ZScore(redis, zk, ev[i]) <= ZScore(redis, zk, ev[j])
                  /\ \A m \in stay : ZScore(redis, zk, ev[n]) <= ZScore(redis, zk, m)
                  /\ total - PreSizes(EvictedSet(ev)) + v <= SizeLimit
                  /\ total - PreSizes(EvictedUpTo(ev, n - 1)) + v > SizeLimit
            /\ \A m \in stay :
                  /\ m \in Index(redis', id)
                  /\ ZScore(redis', zk, m) = ZScore(redis, zk, m)
                  /\ get_cache_entry(redis', m) = get_cache_entry(redis, m)
                  /\ read(storage', id, from_prefixed_key(id, m))
                       = read(storage, id, from_prefixed_key(id, m)) ]_vars

\* a put of a new key evicted the older of two entries and left the newer
\* one as it was
C27_Witness ==
    /\ PutReturned
    /\ ~ last.pre.entries[LastKey].some
    /\ Len(last.data) <= SizeLimit
    /\ Len(last.evicted) = 1
    /\ \E m \in Index(redis, last.id) \ {LastKey} :
          /\ last.pre.entries[m].some
          /\ last.pre.entries[last.evicted[1]].data.atime < last.pre.entries[m].data.atime
          /\ get_cache_entry(redis, m) = last.pre.entries[m]

----------------------------------------------------------------------------
\* the redis keys that hold an entry hash
Hashes(rd) == { k \in DOMAIN rd : rd[k].t = "hash" }

\* C28: a step of an LRU get, also of one that runs concurrently with a
\* put that evicts its key, leaves total_size and the members of the index
\* unchanged and creates no entry hash.
C28_GetKeepsMembership ==
    [][ \A p \in Procs :
          (lru_calls[p].op = "get" /\ lru_calls'[p] # lru_calls[p]) =>
              /\ TotalIn(redis', Lru) = TotalIn(redis, Lru)
              /\ Index(redis', Lru) = Index(redis, Lru)
              /\ Hashes(redis') \subseteq Hashes(redis) ]_vars

----------------------------------------------------------------------------
\* C29: in a TTL cache with its reaper running, a get of a key whose
\* metadata key exists and has not expired returns the payload that was put.
C29_GetBeforeExpiry ==
    (/\ last.op = "get" /\ last.policy = "ttl" /\ last.res = "ok"
     /\ StrExists(redis, to_redis_key(TtlId, last.key))) =>
        /\ last.ret.some
        /\ last.ret.data \in ReaperPayloads

\* C29 for a server that publishes expired events only
C29_GetBeforeExpiryKx == notify = "Kx" => C29_GetBeforeExpiry

----------------------------------------------------------------------------
\* C30: for an Others task whose rule has no policy in the cache map, the
\* get of resolve is a miss (no call of the task returns without a request
\* of its own), and the task is never in the in-flight set without an
\* active worker of the task, the one that will remove it.
C30_UnknownRuleNotLeftInFlight ==
    \A t \in Tasks :
        ~ has_cache(t) =>
            /\ \A c \in Callers :
                  (calls[c].pc = "done" /\ calls[c].task = t) => calls[c].fg > 0
            /\ t \in task_set => ActiveFor(workers, t) # {}

====
